---- MODULE Spec2Model ----
(***************************************************************************)
(* committee-scheduler: the sheets editor (upsertMeetings, logExecution)   *)
(* and the two entry points (main() of index.ts, main() of the METI-only   *)
(* runner), as a state machine over one spreadsheet.  Every call to the    *)
(* spreadsheet service is one step that either succeeds or fails.  The     *)
(* sheet titles, header cells and status words of the source are Japanese  *)
(* strings; ASCII names stand for them here.                               *)
(***************************************************************************)
EXTENDS Integers, Sequences, FiniteSets, TLC

VARIABLES
    sheets,     \* the spreadsheet: sheet title -> [exists, rows]; rows[1] is row 1
    up,         \* the frame of the running upsertMeetings call
    last,       \* the previous finished upsertMeetings call (sheet, input, outcome)
    faults,     \* number of store calls that have failed so far
    lg,         \* the frame of the running logExecution call
    main,       \* the position of main(), and the entry point it was started from
    run,        \* number of runs of the process started so far (the clock)
    exitCode,   \* exit status of the last run: -1 while none has ended
    error,      \* the error caught by main()'s catch
    trace,      \* what main() has invoked in the current run, in order
    atStart,    \* the spreadsheet as it was when the current run started
    sc,         \* the frame of the running scrapeMeetings call of an adapter
    win         \* one application of the OCCTO month filter: run date, item, result

vars ==
    <<sheets, up, last, faults, lg, main, run, exitCode, error, trace, atStart,
      sc, win>>

scrapeVars == <<sc, win>>

mainVars == <<main, run, exitCode, error, trace, atStart, scrapeVars>>

----------------------------------------------------------------------------
(* Bounds of the model                                                     *)

MaxInput == 2
MaxRows == 4
MaxFaults == 1
MaxRuns == 1
MaxEntries == 2

----------------------------------------------------------------------------
(* Names and fixed rows                                                    *)

METI_SHEET_NAME == "meti"
METI_HISTORY_SHEET_NAME == "meti_history"
OCCTO_SHEET_NAME == "occto"
OCCTO_HISTORY_SHEET_NAME == "occto_history"

MainSheets == {METI_SHEET_NAME, OCCTO_SHEET_NAME}
HistorySheets == {METI_HISTORY_SHEET_NAME, OCCTO_HISTORY_SHEET_NAME}
SheetNames == MainSheets \cup HistorySheets

MainHeader == <<"h_name", "h_date", "h_time", "h_agenda", "h_url">>
HistoryHeader == <<"h_timestamp", "h_status", "h_count", "h_error">>

\* MeetingData values used as inputs: two versions of u1, one of u2.
MeetingData(name, date, time, agenda, detailUrl) ==
    [name |-> name, date |-> date, time |-> time, agenda |-> agenda,
     detailUrl |-> detailUrl]

M1 == MeetingData("n1", "2026-01-19", "13:00-15:00", "a1", "u1")
M1b == MeetingData("n1b", "2026-02-17", "", "", "u1")
M2 == MeetingData("n2", "2026-03-01", "18:00-20:00", "a2", "u2")

Meetings == {M1, M1b, M2}

SeqsUpTo(S, n) == UNION { [1..k -> S] : k \in 0..n }

Inputs == SeqsUpTo(Meetings, MaxInput)

----------------------------------------------------------------------------
(* The spreadsheet service, as the editor uses it                          *)

NoSheet == [exists |-> FALSE, rows |-> <<>>]

\* spreadsheets.get + some(title === sheetName)
SheetExists(sh, sheetName) == sh[sheetName].exists

\* batchUpdate addSheet: a new sheet without any row
AddSheet(sh, sheetName) ==
    [sh EXCEPT ![sheetName] = [exists |-> TRUE, rows |-> <<>>]]

\* A faulty variant of ValuesUpdate that writes one row too high (the map
\* holding index + 1 for index + 2); C4 does not hold of it.
ValuesUpdateRowAbove(rows, rowIndex, row) ==
    IF rowIndex - 1 \in DOMAIN rows
        THEN [rows EXCEPT ![rowIndex - 1] = row]
        ELSE Append(rows, row)

\* values.update of one whole row at a 1-based row index
ValuesUpdate(rows, rowIndex, row) ==
    IF rowIndex \in DOMAIN rows
        THEN [rows EXCEPT ![rowIndex] = row]
        ELSE Append(rows, row)

\* A faulty variant of ValuesAppend that writes over the last row of the sheet;
\* C12 does not hold of it.
ValuesAppendOverLast(rows, row) ==
    IF rows = <<>> THEN <<row>> ELSE [rows EXCEPT ![Len(rows)] = row]

\* values.append: the row goes after the last row of the sheet's table
ValuesAppend(rows, row) == Append(rows, row)

\* values.get of A2:E: every row below row 1
ValuesGetFromRow2(rows) == SubSeq(rows, 2, Len(rows))

----------------------------------------------------------------------------
(* upsertMeetings                                                          *)

EmptyMap == [u \in {} |-> 0]

\* Map.set(k, v): a later set of the same key replaces the earlier one
MapSet(m, k, v) == [x \in (DOMAIN m) \cup {k} |-> IF x = k THEN v ELSE m[x]]

\* existingData.forEach((row, index) => if (row[4]) map.set(row[4], index + 2)),
\* with i the 1-based position of the row in existingData (index = i - 1).
RECURSIVE UrlToRowIndexFrom(_, _, _)
UrlToRowIndexFrom(existingData, i, m) ==
    IF i > Len(existingData) THEN m
    ELSE LET row == existingData[i]
             url == IF Len(row) >= 5 THEN row[5] ELSE ""
         IN UrlToRowIndexFrom(existingData, i + 1,
                IF url # "" THEN MapSet(m, url, (i - 1) + 2) ELSE m)

UrlToRowIndex(existingData) == UrlToRowIndexFrom(existingData, 1, EmptyMap)

RowData(meeting) ==
    <<meeting.name, meeting.date, meeting.time, meeting.agenda, meeting.detailUrl>>

UpIdle ==
    [pc |-> "idle", sheetName |-> "", meetings |-> <<>>, i |-> 1,
     urlToRowIndex |-> EmptyMap, updated |-> 0, inserted |-> 0,
     error |-> "", writes |-> <<>>, readOk |-> TRUE, rowsAtRead |-> <<>>,
     before |-> <<>>, repeat |-> FALSE]

NoCall == [sheetName |-> "", meetings |-> <<>>, outcome |-> "none"]

\* the frame at the call upsertMeetings(meetings, sheetName)
UpsertCall(meetings, sheetName) ==
    [UpIdle EXCEPT !.pc = "client", !.sheetName = sheetName,
                   !.meetings = meetings, !.before = sheets,
                   !.repeat = (last.outcome = "returned"
                               /\ last.sheetName = sheetName
                               /\ last.meetings = meetings)]

CanFail == faults < MaxFaults

\* line 105: getSheetsClient(); a failure is raised to the caller
UpsertGetClient ==
    /\ up.pc = "client"
    /\ \/ /\ up' = [up EXCEPT !.pc = "lookup"]
          /\ UNCHANGED faults
       \/ /\ CanFail
          /\ faults' = faults + 1
          /\ up' = [up EXCEPT !.pc = "raised", !.error = "auth_error"]
    /\ UNCHANGED <<sheets, last, lg, mainVars>>

\* ensureMainSheetExists, lines 52-60: spreadsheets.get; any failure is caught
UpsertEnsureLookup ==
    /\ up.pc = "lookup"
    /\ \/ /\ up' = [up EXCEPT !.pc =
                      IF SheetExists(sheets, up.sheetName) THEN "read" ELSE "addSheet"]
          /\ UNCHANGED faults
       \/ /\ CanFail
          /\ faults' = faults + 1
          /\ up' = [up EXCEPT !.pc = "read"]
    /\ UNCHANGED <<sheets, last, lg, mainVars>>

\* ensureMainSheetExists, lines 62-75: addSheet; any failure is caught
UpsertEnsureAddSheet ==
    /\ up.pc = "addSheet"
    /\ \/ /\ sheets' = AddSheet(sheets, up.sheetName)
          /\ up' = [up EXCEPT !.pc = "header"]
          /\ UNCHANGED faults
       \/ /\ CanFail
          /\ faults' = faults + 1
          /\ up' = [up EXCEPT !.pc = "read"]
          /\ UNCHANGED sheets
    /\ UNCHANGED <<last, lg, mainVars>>

\* ensureMainSheetExists, lines 78-85: header row at A1:E1; any failure is caught
UpsertEnsureHeader ==
    /\ up.pc = "header"
    /\ \/ /\ sheets' = [sheets EXCEPT ![up.sheetName].rows =
                           ValuesUpdate(@, 1, MainHeader)]
          /\ UNCHANGED faults
       \/ /\ CanFail
          /\ faults' = faults + 1
          /\ UNCHANGED sheets
    /\ up' = [up EXCEPT !.pc = "read"]
    /\ UNCHANGED <<last, lg, mainVars>>

\* A faulty variant of UpsertRead in which a failed read leaves upsertMeetings as
\* an exception; C23 does not hold of it.
UpsertReadRaising ==
    /\ up.pc = "read"
    /\ \/ /\ SheetExists(sheets, up.sheetName)
          /\ up' = [up EXCEPT !.pc = "loop", !.readOk = TRUE,
                       !.rowsAtRead = sheets[up.sheetName].rows,
                       !.urlToRowIndex =
                           UrlToRowIndex(ValuesGetFromRow2(sheets[up.sheetName].rows))]
          /\ UNCHANGED faults
       \/ /\ ~SheetExists(sheets, up.sheetName)
          /\ up' = [up EXCEPT !.pc = "raised", !.error = "read_error",
                       !.readOk = FALSE,
                       !.rowsAtRead = sheets[up.sheetName].rows]
          /\ UNCHANGED faults
       \/ /\ SheetExists(sheets, up.sheetName)
          /\ CanFail
          /\ faults' = faults + 1
          /\ up' = [up EXCEPT !.pc = "raised", !.error = "read_error",
                       !.readOk = FALSE,
                       !.rowsAtRead = sheets[up.sheetName].rows]
    /\ UNCHANGED <<sheets, last, lg, mainVars>>

\* getExistingData (lines 27-42) and the map of lines 114-120.  The read fails
\* when the sheet does not exist; a failed read is caught and yields [].
UpsertRead ==
    /\ up.pc = "read"
    /\ \/ /\ SheetExists(sheets, up.sheetName)
          /\ up' = [up EXCEPT !.pc = "loop", !.readOk = TRUE,
                       !.rowsAtRead = sheets[up.sheetName].rows,
                       !.urlToRowIndex =
                           UrlToRowIndex(ValuesGetFromRow2(sheets[up.sheetName].rows))]
          /\ UNCHANGED faults
       \/ /\ ~SheetExists(sheets, up.sheetName)
          /\ up' = [up EXCEPT !.pc = "loop", !.readOk = FALSE,
                       !.rowsAtRead = sheets[up.sheetName].rows,
                       !.urlToRowIndex = UrlToRowIndex(<<>>)]
          /\ UNCHANGED faults
       \/ /\ SheetExists(sheets, up.sheetName)
          /\ CanFail
          /\ faults' = faults + 1
          /\ up' = [up EXCEPT !.pc = "loop", !.readOk = FALSE,
                       !.rowsAtRead = sheets[up.sheetName].rows,
                       !.urlToRowIndex = UrlToRowIndex(<<>>)]
    /\ UNCHANGED <<sheets, last, lg, mainVars>>

\* lines 135-137: update when the key is in the map, append otherwise
WriteKind(urlToRowIndex, meeting) ==
    IF meeting.detailUrl \in DOMAIN urlToRowIndex THEN "update" ELSE "append"

\* the rows of the sheet after the write for one meeting has been applied
ApplyWrite(rows, urlToRowIndex, meeting) ==
    IF WriteKind(urlToRowIndex, meeting) = "update"
        THEN ValuesUpdate(rows, urlToRowIndex[meeting.detailUrl], RowData(meeting))
        ELSE ValuesAppend(rows, RowData(meeting))

\* the frame after the write for meetings[i] has completed (lines 147, 159)
AfterWrite(f) ==
    LET meeting == f.meetings[f.i]
        kind == WriteKind(f.urlToRowIndex, meeting)
    IN [f EXCEPT !.i = @ + 1,
                 !.updated = IF kind = "update" THEN @ + 1 ELSE @,
                 !.inserted = IF kind = "append" THEN @ + 1 ELSE @,
                 !.writes = Append(@, [kind |-> kind, row |-> RowData(meeting),
                                       ok |-> TRUE])]

\* A faulty variant of AfterFailedWrite that catches the error inside the loop
\* and goes on with the next record; C5 does not hold of it.
AfterFailedWriteSwallowed(f) ==
    LET meeting == f.meetings[f.i]
        kind == WriteKind(f.urlToRowIndex, meeting)
    IN [f EXCEPT !.i = @ + 1,
                 !.writes = Append(@, [kind |-> kind, row |-> RowData(meeting),
                                       ok |-> FALSE])]

\* the frame after the write for meetings[i] has failed: the error leaves the loop
AfterFailedWrite(f) ==
    LET meeting == f.meetings[f.i]
        kind == WriteKind(f.urlToRowIndex, meeting)
    IN [f EXCEPT !.pc = "raised", !.error = "write_error",
                 !.writes = Append(@, [kind |-> kind, row |-> RowData(meeting),
                                       ok |-> FALSE])]

\* lines 126-162: one iteration of the loop, one awaited row write.  A write to a
\* sheet that does not exist fails.
UpsertWrite ==
    /\ up.pc = "loop"
    /\ up.i <= Len(up.meetings)
    /\ \/ /\ SheetExists(sheets, up.sheetName)
          /\ sheets' = [sheets EXCEPT ![up.sheetName].rows =
                           ApplyWrite(@, up.urlToRowIndex, up.meetings[up.i])]
          /\ up' = AfterWrite(up)
          /\ UNCHANGED faults
       \/ /\ ~SheetExists(sheets, up.sheetName)
          /\ up' = AfterFailedWrite(up)
          /\ UNCHANGED <<sheets, faults>>
       \/ /\ SheetExists(sheets, up.sheetName)
          /\ CanFail
          /\ faults' = faults + 1
          /\ up' = AfterFailedWrite(up)
          /\ UNCHANGED sheets
    /\ UNCHANGED <<last, lg, mainVars>>

\* line 164: return { updated, inserted }
UpsertReturn ==
    /\ up.pc = "loop"
    /\ up.i > Len(up.meetings)
    /\ up' = [up EXCEPT !.pc = "returned"]
    /\ UNCHANGED <<sheets, last, faults, lg, mainVars>>

UpsertStep ==
    \/ UpsertGetClient
    \/ UpsertEnsureLookup
    \/ UpsertEnsureAddSheet
    \/ UpsertEnsureHeader
    \/ UpsertRead
    \/ UpsertWrite
    \/ UpsertReturn

\* what the caller keeps of a finished call
Finished(f) ==
    [sheetName |-> f.sheetName, meetings |-> f.meetings, outcome |-> f.pc]

----------------------------------------------------------------------------
(* logExecution                                                            *)

STATUS_SUCCESS == "success"
STATUS_FAILURE == "failure"

LgIdle ==
    [pc |-> "idle", sheetName |-> "", status |-> "", processedCount |-> "",
     errorDetail |-> "", appended |-> FALSE, failedAt |-> ""]

\* the frame at the call logExecution(sheetName, status, processedCount),
\* errorDetail taking its default "-"
LogCall(sheetName, status, processedCount) ==
    [LgIdle EXCEPT !.pc = "client", !.sheetName = sheetName, !.status = status,
                   !.processedCount = processedCount, !.errorDetail = "-"]

\* A faulty variant of LogFailed in which a failed store call leaves
\* logExecution as an exception; C11 does not hold of it.
LogFailedRaises(f, at) == [f EXCEPT !.pc = "raised", !.failedAt = at]

\* the frame after a store call of logExecution has failed at the given point:
\* the catch of ensureHistorySheetExists (lines 212-214) lets logExecution go on
\* to its append, the catch of logExecution (lines 248-250) lets it return
LogFailed(f, at) ==
    [f EXCEPT !.pc = IF at \in {"lookup", "addSheet", "header"} THEN "append"
                     ELSE "returned",
              !.failedAt = at]

\* lines 233-235: the wall clock, read once per call; the model's clock is the run
Timestamp == "t" \o ToString(run)

\* line 243: the appended row
LogRow(f) == <<Timestamp, f.status, f.processedCount, f.errorDetail>>

\* line 227: getSheetsClient(); a failure is caught at line 248
LogGetClient ==
    /\ lg.pc = "client"
    /\ \/ /\ lg' = [lg EXCEPT !.pc = "lookup"]
          /\ UNCHANGED faults
       \/ /\ CanFail
          /\ faults' = faults + 1
          /\ lg' = LogFailed(lg, "client")
    /\ UNCHANGED <<sheets, up, last, mainVars>>

\* ensureHistorySheetExists, lines 175-183; any failure is caught at line 212
LogEnsureLookup ==
    /\ lg.pc = "lookup"
    /\ \/ /\ lg' = [lg EXCEPT !.pc =
                      IF SheetExists(sheets, lg.sheetName) THEN "append" ELSE "addSheet"]
          /\ UNCHANGED faults
       \/ /\ CanFail
          /\ faults' = faults + 1
          /\ lg' = LogFailed(lg, "lookup")
    /\ UNCHANGED <<sheets, up, last, mainVars>>

\* ensureHistorySheetExists, lines 185-198
LogEnsureAddSheet ==
    /\ lg.pc = "addSheet"
    /\ \/ /\ sheets' = AddSheet(sheets, lg.sheetName)
          /\ lg' = [lg EXCEPT !.pc = "header"]
          /\ UNCHANGED faults
       \/ /\ CanFail
          /\ faults' = faults + 1
          /\ lg' = LogFailed(lg, "addSheet")
          /\ UNCHANGED sheets
    /\ UNCHANGED <<up, last, mainVars>>

\* ensureHistorySheetExists, lines 201-208
LogEnsureHeader ==
    /\ lg.pc = "header"
    /\ \/ /\ sheets' = [sheets EXCEPT ![lg.sheetName].rows =
                           ValuesUpdate(@, 1, HistoryHeader)]
          /\ lg' = [lg EXCEPT !.pc = "append"]
          /\ UNCHANGED faults
       \/ /\ CanFail
          /\ faults' = faults + 1
          /\ lg' = LogFailed(lg, "header")
          /\ UNCHANGED sheets
    /\ UNCHANGED <<up, last, mainVars>>

\* lines 238-245: the append; it fails when the sheet does not exist; any
\* failure is caught at line 248 and the call returns
LogAppend ==
    /\ lg.pc = "append"
    /\ \/ /\ SheetExists(sheets, lg.sheetName)
          /\ sheets' = [sheets EXCEPT ![lg.sheetName].rows =
                           ValuesAppend(@, LogRow(lg))]
          /\ lg' = [lg EXCEPT !.pc = "returned", !.appended = TRUE]
          /\ UNCHANGED faults
       \/ /\ ~SheetExists(sheets, lg.sheetName)
          /\ lg' = LogFailed(lg, "append")
          /\ UNCHANGED <<sheets, faults>>
       \/ /\ SheetExists(sheets, lg.sheetName)
          /\ CanFail
          /\ faults' = faults + 1
          /\ lg' = LogFailed(lg, "append")
          /\ UNCHANGED sheets
    /\ UNCHANGED <<up, last, mainVars>>

LogStep ==
    \/ LogGetClient
    \/ LogEnsureLookup
    \/ LogEnsureAddSheet
    \/ LogEnsureHeader
    \/ LogAppend

----------------------------------------------------------------------------
(* main() of index.ts, and main() of the METI-only runner                  *)

Sources == {"METI", "OCCTO"}

\* the two entry points: index.ts processes METI then OCCTO, the runner METI
Entries == {"index", "runner"}

SourcesOf(entry) == IF entry = "index" THEN <<"METI", "OCCTO">> ELSE <<"METI">>

IsLastSource(entry, src) == SourcesOf(entry)[Len(SourcesOf(entry))] = src

MainSheetOf(src) == IF src = "METI" THEN METI_SHEET_NAME ELSE OCCTO_SHEET_NAME

\* A faulty variant of HistorySheetOf that gives METI's history for both
\* sources; C9 does not hold of it.
HistorySheetOfFirst(src) == METI_HISTORY_SHEET_NAME

HistorySheetOf(src) ==
    IF src = "METI" THEN METI_HISTORY_SHEET_NAME ELSE OCCTO_HISTORY_SHEET_NAME

\* "0件"
ZeroCount == "0"

\* `更新${updated}件、新規${inserted}件`
ProcessedCount(updated, inserted) ==
    "updated" \o ToString(updated) \o ",inserted" \o ToString(inserted)

\* what a scrapeMeetings() call can give main(): a record sequence, or the
\* error of the failed listing fetch
ScrapeResults == { <<>>, <<M1b>>, <<M1b, M2>> }

ScrapeError(src) ==
    IF src = "METI" THEN "meti_list_fetch_failed" ELSE "occto_news_json_failed"

MainIdle == [pc |-> "idle", src |-> "", logTo |-> "", entry |-> ""]

\* one entry of the trace: what was invoked, on what, and how it went
Ev(op, target, status, msg) ==
    [op |-> op, target |-> target, status |-> status, msg |-> msg]

\* how a returned logExecution call went: logExecution returns nothing, the
\* trace keeps whether its row was appended
LogOutcome(f) ==
    Ev("logDone", f.sheetName, IF f.appended THEN "appended" ELSE "failed", "")

\* the values a step of main() leaves as they are
Keep ==
    [main |-> main, lg |-> lg, up |-> up, last |-> last, error |-> error,
     exitCode |-> exitCode, events |-> <<>>]

Apply(r) ==
    /\ main' = r.main
    /\ lg' = r.lg
    /\ up' = r.up
    /\ last' = r.last
    /\ error' = r.error
    /\ exitCode' = r.exitCode
    /\ trace' = trace \o r.events

\* A variant of Catch with one catch per source: the failure goes to the failed
\* source's history and main() goes on with the next source; C6 does not hold
\* of it.
CatchPerSource(msg) ==
    [Keep EXCEPT !.main = [main EXCEPT !.pc = "logSuccess"],
                 !.error = msg,
                 !.lg = LogCall(HistorySheetOf(main.src), STATUS_FAILURE, msg),
                 !.events = <<Ev("log", HistorySheetOf(main.src), STATUS_FAILURE, msg)>>]

\* lines 131-138 (runner: 40-47): the catch of main(); the message goes to
\* METI's history first
Catch(msg) ==
    [Keep EXCEPT !.main = [main EXCEPT !.pc = "catchLog", !.logTo = "METI"],
                 !.error = msg,
                 !.lg = LogCall(METI_HISTORY_SHEET_NAME, STATUS_FAILURE, msg),
                 !.events = <<Ev("log", METI_HISTORY_SHEET_NAME, STATUS_FAILURE, msg)>>]

\* A faulty variant of ScrapeReturned without the branch on an empty result;
\* C10 does not hold of it.
ScrapeReturnedNoEmptyCheck(src, meetings) ==
    [Keep EXCEPT
        !.main = [main EXCEPT !.pc = "upsert"],
        !.up = UpsertCall(meetings, MainSheetOf(src)),
        !.events = <<Ev("scrape", src, IF Len(meetings) = 0 THEN "empty" ELSE "records", ""),
                     Ev("upsert", src, "called", "")>>]

\* lines 77-88 and 103-114: the branch on the scraped records
ScrapeReturned(src, meetings) ==
    IF Len(meetings) = 0
        THEN [Keep EXCEPT
                 !.main = [main EXCEPT !.pc = "logSuccess"],
                 !.lg = LogCall(HistorySheetOf(src), STATUS_SUCCESS, ZeroCount),
                 !.events = <<Ev("scrape", src, "empty", ""),
                              Ev("log", HistorySheetOf(src), STATUS_SUCCESS, ZeroCount)>>]
        ELSE [Keep EXCEPT
                 !.main = [main EXCEPT !.pc = "upsert"],
                 !.up = UpsertCall(meetings, MainSheetOf(src)),
                 !.events = <<Ev("scrape", src, "records", ""),
                              Ev("upsert", src, "called", "")>>]

\* lines 75 and 101 raising: control goes to the catch
ScrapeRaised(src) ==
    [Catch(ScrapeError(src)) EXCEPT
        !.events = <<Ev("scrape", src, "raised", ScrapeError(src))>> \o @]

\* A faulty variant of UpsertReturned that does not await logExecution: the next
\* scrape starts while the history append is in flight; C17 does not hold of it.
UpsertReturnedNoAwait(src) ==
    [Keep EXCEPT
        !.main = [main EXCEPT !.pc = "scrape", !.src = "OCCTO"],
        !.up = UpIdle,
        !.last = Finished(up),
        !.lg = LogCall(HistorySheetOf(src), STATUS_SUCCESS,
                       ProcessedCount(up.updated, up.inserted)),
        !.events = <<Ev("upsertDone", src, "returned", ""),
                     Ev("log", HistorySheetOf(src), STATUS_SUCCESS,
                        ProcessedCount(up.updated, up.inserted))>>]

\* lines 95-96 and 121-122: the counts go to the source's history
UpsertReturned(src) ==
    [Keep EXCEPT
        !.main = [main EXCEPT !.pc = "logSuccess"],
        !.up = UpIdle,
        !.last = Finished(up),
        !.lg = LogCall(HistorySheetOf(src), STATUS_SUCCESS,
                       ProcessedCount(up.updated, up.inserted)),
        !.events = <<Ev("upsertDone", src, "returned", ""),
                     Ev("log", HistorySheetOf(src), STATUS_SUCCESS,
                        ProcessedCount(up.updated, up.inserted))>>]

\* A faulty variant of UpsertRaised that logs SUCCESS with the counts reached
\* when the write failed; C21 does not hold of it.
UpsertRaisedLogsSuccess(src) ==
    [Keep EXCEPT
        !.main = [main EXCEPT !.pc = "logSuccess"],
        !.up = UpIdle,
        !.last = Finished(up),
        !.lg = LogCall(HistorySheetOf(src), STATUS_SUCCESS,
                       ProcessedCount(up.updated, up.inserted)),
        !.events = <<Ev("upsertDone", src, "raised", up.error),
                     Ev("log", HistorySheetOf(src), STATUS_SUCCESS,
                        ProcessedCount(up.updated, up.inserted))>>]

\* lines 85 and 111 raising: control goes to the catch
UpsertRaised(src) ==
    [Catch(up.error) EXCEPT
        !.up = UpIdle,
        !.last = Finished(up),
        !.events = <<Ev("upsertDone", src, "raised", up.error)>> \o @]

\* after line 79/96: OCCTO follows METI; after line 105/122 (runner: 18-19 and
\* 34) main() ends and the process exits with status 0
SuccessLogged(src) ==
    IF ~IsLastSource(main.entry, src)
        THEN [Keep EXCEPT !.main = [main EXCEPT !.pc = "scrape", !.src = "OCCTO"],
                          !.lg = LgIdle,
                          !.events = <<LogOutcome(lg)>>]
        ELSE [Keep EXCEPT !.main = MainIdle, !.lg = LgIdle, !.exitCode = 0,
                          !.events = <<LogOutcome(lg), Ev("exit", "", "0", "")>>]

\* A faulty variant of FailureLogged that exits after the first history;
\* C8 does not hold of it.
FailureLoggedOnce(logTo) ==
    [Keep EXCEPT !.main = MainIdle, !.lg = LgIdle, !.exitCode = 1,
                 !.events = <<LogOutcome(lg), Ev("exit", "", "1", "")>>]

\* lines 139-145: the second history, then process.exit(1) (runner: 53)
FailureLogged(logTo) ==
    IF ~IsLastSource(main.entry, logTo)
        THEN [Keep EXCEPT
                 !.main = [main EXCEPT !.logTo = "OCCTO"],
                 !.lg = LogCall(OCCTO_HISTORY_SHEET_NAME, STATUS_FAILURE, error),
                 !.events = <<LogOutcome(lg),
                              Ev("log", OCCTO_HISTORY_SHEET_NAME, STATUS_FAILURE, error)>>]
        ELSE [Keep EXCEPT !.main = MainIdle, !.lg = LgIdle, !.exitCode = 1,
                          !.events = <<LogOutcome(lg), Ev("exit", "", "1", "")>>]

\* the process is started from one of the entry points: main() begins with METI
StartRun ==
    /\ main.pc = "idle"
    /\ up.pc = "idle"
    /\ run < MaxRuns
    /\ run' = run + 1
    /\ \E entry \in Entries :
          /\ main' = [pc |-> "scrape", src |-> "METI", logTo |-> "", entry |-> entry]
          /\ trace' = <<Ev("start", entry, "", "")>>
    /\ exitCode' = -1
    /\ error' = ""
    /\ atStart' = sheets
    /\ UNCHANGED <<sheets, up, last, faults, lg, scrapeVars>>

Scrape ==
    /\ main.pc = "scrape"
    /\ \/ \E meetings \in ScrapeResults : Apply(ScrapeReturned(main.src, meetings))
       \/ Apply(ScrapeRaised(main.src))
    /\ UNCHANGED <<sheets, faults, run, atStart, scrapeVars>>

UpsertDone ==
    /\ main.pc = "upsert"
    /\ \/ /\ up.pc = "returned"
          /\ Apply(UpsertReturned(main.src))
       \/ /\ up.pc = "raised"
          /\ Apply(UpsertRaised(main.src))
    /\ UNCHANGED <<sheets, faults, run, atStart, scrapeVars>>

LogSuccessDone ==
    /\ main.pc = "logSuccess"
    /\ lg.pc = "returned"
    /\ Apply(SuccessLogged(main.src))
    /\ UNCHANGED <<sheets, faults, run, atStart, scrapeVars>>

LogFailureDone ==
    /\ main.pc = "catchLog"
    /\ lg.pc = "returned"
    /\ Apply(FailureLogged(main.logTo))
    /\ UNCHANGED <<sheets, faults, run, atStart, scrapeVars>>

----------------------------------------------------------------------------
(* A caller of upsertMeetings alone: any record sequence, either main sheet *)

\* One sheet is under test in a behaviour, and it is kept within MaxRows rows.
CallUpsert ==
    /\ main.pc = "idle"
    /\ up.pc = "idle"
    /\ \E meetings \in Inputs, sheetName \in MainSheets :
          /\ last = NoCall \/ last.sheetName = sheetName
          /\ Len(sheets[sheetName].rows) + Len(meetings) <= MaxRows
          /\ up' = UpsertCall(meetings, sheetName)
    /\ UNCHANGED <<sheets, last, faults, lg, mainVars>>

CollectUpsert ==
    /\ main.pc = "idle"
    /\ up.pc \in {"returned", "raised"}
    /\ last' = Finished(up)
    /\ up' = UpIdle
    /\ UNCHANGED <<sheets, faults, lg, mainVars>>

----------------------------------------------------------------------------
(* The adapters: what the parsers compute                                  *)

\* padStart(2, "0") of a captured month or day of one or two digits
Pad2(n) == IF n < 10 THEN "0" \o ToString(n) ELSE ToString(n)

\* A text is given as the sequence of its pieces: each white-space character is
\* a piece of its own, and the other pieces are runs of characters that are no
\* white space.  A character outside ASCII is written by its code point, as in
\* "U+3000".  Concat is the string the pieces make.
RECURSIVE Concat(_)
Concat(pieces) ==
    IF pieces = <<>> THEN "" ELSE Head(pieces) \o Concat(Tail(pieces))

\* String.prototype.trim(): the white space and the line terminators of
\* ECMAScript at both ends removed.  These are tab, line feed, vertical tab,
\* form feed, carriage return, space, no-break space, the byte order mark, the
\* line and paragraph separators, and the space separators of Unicode, among
\* them the ideographic space U+3000.
RECURSIVE trim(_)
trim(pieces) ==
    LET WhiteSpace ==
            {"\t", "\n", "U+000B", "\f", "\r", " ", "U+00A0", "U+FEFF",
             "U+2028", "U+2029",
             "U+1680", "U+2000", "U+2001", "U+2002", "U+2003", "U+2004",
             "U+2005", "U+2006", "U+2007", "U+2008", "U+2009", "U+200A",
             "U+202F", "U+205F", "U+3000"}
    IN IF pieces = <<>> THEN <<>>
       ELSE IF Head(pieces) \in WhiteSpace THEN trim(Tail(pieces))
       ELSE IF pieces[Len(pieces)] \in WhiteSpace
               THEN trim(SubSeq(pieces, 1, Len(pieces) - 1))
       ELSE pieces

\* replace(/[\n\r]/g, " "): every line break becomes one space
replaceBreaks(pieces) ==
    [k \in DOMAIN pieces |-> IF pieces[k] \in {"\n", "\r"} THEN " " ELSE pieces[k]]

\* A date text as the parsers see it: text().trim() of the element, as a string
\* (raw) and in pieces, and the <<year, month, day>> that
\* /(\d{4})年(\d{1,2})月(\d{1,2})日/ captures in it (<<>> when it does not match,
\* as in a text that is empty once trimmed).
DateText(pieces, ymd) ==
    [raw |-> Concat(trim(pieces)), pieces |-> trim(pieces),
     ymd |-> IF trim(pieces) = <<>> THEN <<>> ELSE ymd]

NoText == DateText(<<>>, <<>>)

\* the four digits that (\d{4}) captures for a year
Digits4(n) ==
    IF n < 10 THEN "000" \o ToString(n)
    ELSE IF n < 100 THEN "00" \o ToString(n)
    ELSE IF n < 1000 THEN "0" \o ToString(n)
    ELSE ToString(n)

\* `${year}-${month.padStart(2, "0")}-${day.padStart(2, "0")}`, the year being the
\* four digits captured
FormatDate(ymd) == Digits4(ymd[1]) \o "-" \o Pad2(ymd[2]) \o "-" \o Pad2(ymd[3])

\* METI parseDate: the canonical date, or the text itself when it does not match
parseDate(dateStr) ==
    IF dateStr.ymd = <<>> THEN dateStr.raw ELSE FormatDate(dateStr.ymd)

\* an href or url of a listing: how it starts, and its text
Href(kind, text) == [kind |-> kind, text |-> text]

METI_HOST == "https://wwws.meti.go.jp"
METI_BASE_URL == "https://wwws.meti.go.jp/interface/honsho/committee/index.cgi"
OCCTO_BASE_URL == "https://www.occto.or.jp"

\* absolute as it is, root-relative after the host, relative after the base
DetailUrl(href, host, base) ==
    IF href.kind = "http" THEN href.text
    ELSE IF href.kind = "root" THEN host \o href.text
    ELSE base \o "/" \o href.text

\* METI parseListPage: the rows with a name, an href and a date text, in order
RECURSIVE parseListPageFrom(_, _)
parseListPageFrom(rows, i) ==
    IF i > Len(rows) THEN <<>>
    ELSE LET row == rows[i]
             rest == parseListPageFrom(rows, i + 1)
         IN IF row.name # "" /\ row.href.text # "" /\ row.dateText.raw # ""
               THEN <<[name |-> row.name,
                       date |-> parseDate(row.dateText),
                       detailUrl |-> DetailUrl(row.href, METI_HOST, METI_BASE_URL)]>>
                    \o rest
               ELSE rest

parseListPage(rows) == parseListPageFrom(rows, 1)

\* A detail page as the parsers see it: the h1 text, the text under the date/time
\* heading with the time range the regular expressions capture in it ("" when
\* none), and the agenda items joined.  A failed fetch is the page FetchFailed.
DetailPage(h1, dateTime, timeRange, agenda) ==
    [ok |-> TRUE, h1 |-> h1, dateTime |-> dateTime, timeRange |-> timeRange,
     agenda |-> agenda]

FetchFailed ==
    [ok |-> FALSE, h1 |-> "", dateTime |-> NoText, timeRange |-> "", agenda |-> ""]

\* METI parseDetailPage: the time is the range captured, or else the text with
\* its line breaks replaced by spaces and trimmed (line 111); time and agenda are
\* both empty when the fetch or the parse fails (catch of lines 133-136)
MetiParseDetailPage(page) ==
    IF ~page.ok THEN [time |-> "", agenda |-> ""]
    ELSE [time |-> IF page.timeRange # "" THEN page.timeRange
                   ELSE Concat(trim(replaceBreaks(page.dateTime.pieces))),
          agenda |-> page.agenda]

\* OCCTO parseDetailPage: name, date, time and agenda; all empty when the fetch
\* or the parse fails (catch of lines 160-163); the date stays empty when the
\* text under the heading is missing or holds no year/month/day; the time is
\* the range captured, or else the text as it is, line breaks included
OcctoParseDetailPage(page) ==
    IF ~page.ok THEN [name |-> "", date |-> "", time |-> "", agenda |-> ""]
    ELSE [name |-> page.h1,
          date |-> IF page.dateTime.raw # "" /\ page.dateTime.ymd # <<>>
                      THEN FormatDate(page.dateTime.ymd) ELSE "",
          time |-> IF page.dateTime.raw = "" THEN ""
                   ELSE IF page.timeRange # "" THEN page.timeRange
                   ELSE page.dateTime.raw,
          agenda |-> page.agenda]

\* year and month (0..11) as getFullYear() and getMonth() give them
YearMonth(year, month) == [year |-> year, month |-> month]

\* new Date(published_date) of a text that is no date: its year and month are NaN
InvalidDate == YearMonth(-1, -1)

TARGET_CATEGORY_ID == "50"
TARGET_CATEGORY_PARENT_ID == "0"

\* A faulty variant of TargetMonths that wraps the month and keeps the year;
\* C19 does not hold of it.
TargetMonthsSameYear(now) ==
    <<YearMonth(now.year, now.month),
      YearMonth(now.year, (now.month + 1) % 12),
      YearMonth(now.year, (now.month + 2) % 12)>>

\* lines 46-56: the current month and the next two, the year stepping at December
TargetMonths(now) ==
    <<YearMonth(now.year, now.month),
      YearMonth(now.year + ((now.month + 1) \div 12), (now.month + 1) % 12),
      YearMonth(now.year + ((now.month + 2) \div 12), (now.month + 2) % 12)>>

\* lines 58-66: the date filter on one item
InWindow(now, published) ==
    \E k \in 1..3 :
        /\ TargetMonths(now)[k].year = published.year
        /\ TargetMonths(now)[k].month = published.month

\* no application of the filter yet
WinIdle == [pc |-> "idle", now |-> YearMonth(0, 0), published |-> YearMonth(0, 0),
            inCategory |-> FALSE, retained |-> FALSE]

\* lines 32-38: the category filter on one item
InCategory(item) ==
    \E cat \in item.categories :
        cat.id = TARGET_CATEGORY_ID /\ cat.parent_id = TARGET_CATEGORY_PARENT_ID

\* OCCTO parseNewsJson on the fetched items: both filters, then name and url
RECURSIVE parseNewsJsonFrom(_, _, _)
parseNewsJsonFrom(newsItems, now, i) ==
    IF i > Len(newsItems) THEN <<>>
    ELSE LET item == newsItems[i]
             rest == parseNewsJsonFrom(newsItems, now, i + 1)
         IN IF InCategory(item) /\ InWindow(now, item.published)
               THEN <<[name |-> item.title,
                       detailUrl |-> DetailUrl(item.url, OCCTO_BASE_URL, OCCTO_BASE_URL)]>>
                    \o rest
               ELSE rest

parseNewsJson(newsItems, now) == parseNewsJsonFrom(newsItems, now, 1)

----------------------------------------------------------------------------
(* The adapters: scrapeMeetings                                            *)

\* setTimeout(resolve, 500)
PAUSE_MS == 500

Adapters == {"METI", "OCCTO"}

\* listing rows of METI: a root-relative link with a date, an absolute link
\* whose date text holds no date, a row without link, and a relative link whose
\* date cell holds white space only
MetiRows ==
    { [name |-> "meti_a", href |-> Href("root", "/committee/a"),
       dateText |-> DateText(<<"2026nen1gatsu19nichi(getsu)">>, <<2026, 1, 19>>)],
      [name |-> "meti_b", href |-> Href("http", "https://wwws.meti.go.jp/b"),
       dateText |-> DateText(<<"mitei">>, <<>>)],
      [name |-> "", href |-> Href("relative", ""), dateText |-> NoText],
      [name |-> "meti_c", href |-> Href("relative", "committee/c"),
       dateText |-> DateText(<<"\t", "U+3000", "\n">>, <<>>)] }

\* news items of OCCTO: two of the target category, published in January and in
\* April 2026, and one of other categories
OcctoItems ==
    { [title |-> "occto_a", published |-> YearMonth(2026, 0),
       url |-> Href("root", "/iinkai/a"),
       categories |-> {[id |-> "50", parent_id |-> "0"]}],
      [title |-> "occto_b", published |-> YearMonth(2026, 3),
       url |-> Href("http", "https://www.occto.or.jp/iinkai/b"),
       categories |-> {[id |-> "50", parent_id |-> "0"], [id |-> "3", parent_id |-> "0"]}],
      [title |-> "occto_c", published |-> YearMonth(2026, 0),
       url |-> Href("relative", "iinkai/c"),
       categories |-> {[id |-> "50", parent_id |-> "7"], [id |-> "3", parent_id |-> "0"]}] }

\* the months in which the adapter runs: December 2025 and March 2026
RunDates == { YearMonth(2025, 11), YearMonth(2026, 2) }

\* detail pages: one with date, time and agenda, one whose text holds neither,
\* one whose text holds a date and a second line but no time range, and one
\* whose text is white space only
PageDated ==
    DetailPage("h1_name",
               DateText(<<"2026nen2gatsu17nichi", " ", "18ji00fun-20ji00fun">>,
                        <<2026, 2, 17>>),
               "18ji00fun-20ji00fun", "agenda_1")

PageUndated == DetailPage("h1_name", DateText(<<"mitei">>, <<>>), "", "")

PageTwoLines ==
    DetailPage("h1_name",
               DateText(<<"2026nen2gatsu17nichi", "\r", "\n", "basho", " ", "mitei">>,
                        <<2026, 2, 17>>),
               "", "agenda_1\nagenda_2")

PageBlank ==
    DetailPage("h1_name", DateText(<<"U+00A0", "\t", "U+3000">>, <<>>), "", "agenda_1")

DetailPages == {PageDated, PageUndated, PageTwoLines, PageBlank, FetchFailed}

ScIdle ==
    [pc |-> "idle", adapter |-> "", now |-> YearMonth(0, 0), entries |-> <<>>,
     i |-> 1, meetings |-> <<>>, net |-> <<>>, clock |-> 0, error |-> ""]

\* a fetch, as the network sees it: what, for which entry, when, and how it went
Fetch(op, i, at, ok) == [op |-> op, i |-> i, at |-> at, ok |-> ok]

\* the frame at the call scrapeMeetings() of an adapter
ScrapeCall(adapter, now) ==
    [ScIdle EXCEPT !.pc = "list", !.adapter = adapter, !.now = now]

\* the frame after the listing has been fetched and parsed into entries
AfterListing(f, entries) ==
    [f EXCEPT !.pc = "detail", !.entries = entries,
              !.net = Append(@, Fetch("list", 0, f.clock, TRUE))]

\* the frame after the listing has failed: METI's fetch error (line 146) and
\* OCCTO's rethrown error (lines 88-93) leave scrapeMeetings.  OCCTO's catch also
\* takes what JSON.parse and the filters throw on a body that was fetched
\* (fetched = TRUE: the fetch itself went well).
AfterListingFailed(f, fetched) ==
    [f EXCEPT !.pc = "raised",
              !.error = IF f.adapter = "METI" THEN "Failed to fetch"
                        ELSE "Failed to parse OCCTO news JSON",
              !.net = Append(@, Fetch("list", 0, f.clock, fetched))]

\* A faulty variant of Emitted without OCCTO's check of the date; C13 does not
\* hold of it.
EmittedNoDateCheck(f, page) ==
    LET entry == f.entries[f.i]
        m == MetiParseDetailPage(page)
        o == OcctoParseDetailPage(page)
    IN [f EXCEPT !.pc = "pause",
                 !.meetings = Append(@,
                     IF f.adapter = "METI"
                        THEN MeetingData(entry.name, entry.date, m.time, m.agenda,
                                         entry.detailUrl)
                        ELSE MeetingData(o.name, o.date, o.time, o.agenda,
                                         entry.detailUrl))]

\* what the loop body does with the parsed detail page of entries[i].  METI
\* (lines 157-165) emits the record and goes to its pause; OCCTO (lines 185-199)
\* skips an entry without date with `continue`, past its pause.
Emitted(f, page) ==
    LET entry == f.entries[f.i]
        m == MetiParseDetailPage(page)
        o == OcctoParseDetailPage(page)
    IN IF f.adapter = "METI"
          THEN [f EXCEPT !.pc = "pause",
                         !.meetings = Append(@,
                             MeetingData(entry.name, entry.date, m.time, m.agenda,
                                         entry.detailUrl))]
          ELSE IF o.date = ""
                  THEN [f EXCEPT !.i = @ + 1]
                  ELSE [f EXCEPT !.pc = "pause",
                                 !.meetings = Append(@,
                                     MeetingData(o.name, o.date, o.time, o.agenda,
                                                 entry.detailUrl))]

\* A faulty variant of AfterDetail in which a failed detail fetch leaves
\* scrapeMeetings as an exception; C16 does not hold of it.
AfterDetailRaising(f, page) ==
    IF ~page.ok
       THEN [f EXCEPT !.pc = "raised", !.error = "Failed to fetch",
                      !.net = Append(@, Fetch("detail", f.i, f.clock, FALSE))]
       ELSE [Emitted(f, page) EXCEPT
                !.net = Append(@, Fetch("detail", f.i, f.clock, TRUE))]

\* the frame after the detail page of entries[i] has been fetched and parsed: a
\* failed fetch is caught inside parseDetailPage and the loop goes on
AfterDetail(f, page) ==
    [Emitted(f, page) EXCEPT !.net = Append(@, Fetch("detail", f.i, f.clock, page.ok))]

\* A faulty variant of AfterPause that stays at the same entry; C24 does not
\* hold of it.
AfterPauseSameEntry(f) == [f EXCEPT !.pc = "detail", !.clock = @ + PAUSE_MS]

\* the frame after the pause of 500 ms (METI line 168, OCCTO line 202)
AfterPause(f) == [f EXCEPT !.pc = "detail", !.i = @ + 1, !.clock = @ + PAUSE_MS]

\* scrapeMeetings() of an adapter is called
CallScrape ==
    /\ main.pc = "idle"
    /\ sc.pc \in {"idle", "returned", "raised"}
    /\ \/ sc' = ScrapeCall("METI", YearMonth(0, 0))
       \/ \E now \in RunDates : sc' = ScrapeCall("OCCTO", now)
    /\ UNCHANGED <<sheets, up, last, faults, lg, main, run, exitCode, error, trace,
                   atStart, win>>

\* METI lines 146-147, OCCTO lines 28-87 and 173: the listing is fetched and
\* parsed, or the fetch fails, or (OCCTO) the fetched body is no JSON array of
\* news items
ScrapeList ==
    /\ sc.pc = "list"
    /\ \/ /\ sc.adapter = "METI"
          /\ \E rows \in SeqsUpTo(MetiRows, MaxEntries) :
                sc' = AfterListing(sc, parseListPage(rows))
       \/ /\ sc.adapter = "OCCTO"
          /\ \E newsItems \in SeqsUpTo(OcctoItems, MaxEntries) :
                sc' = AfterListing(sc, parseNewsJson(newsItems, sc.now))
       \/ sc' = AfterListingFailed(sc, FALSE)
       \/ /\ sc.adapter = "OCCTO"
          /\ sc' = AfterListingFailed(sc, TRUE)
    /\ UNCHANGED <<sheets, up, last, faults, lg, main, run, exitCode, error, trace,
                   atStart, win>>

\* one iteration of the loop up to its pause: the detail page of entries[i]
ScrapeDetail ==
    /\ sc.pc = "detail"
    /\ sc.i <= Len(sc.entries)
    /\ \E page \in DetailPages : sc' = AfterDetail(sc, page)
    /\ UNCHANGED <<sheets, up, last, faults, lg, main, run, exitCode, error, trace,
                   atStart, win>>

ScrapePause ==
    /\ sc.pc = "pause"
    /\ sc' = AfterPause(sc)
    /\ UNCHANGED <<sheets, up, last, faults, lg, main, run, exitCode, error, trace,
                   atStart, win>>

\* METI line 172, OCCTO line 207: return meetings
ScrapeReturn ==
    /\ sc.pc = "detail"
    /\ sc.i > Len(sc.entries)
    /\ sc' = [sc EXCEPT !.pc = "returned"]
    /\ UNCHANGED <<sheets, up, last, faults, lg, main, run, exitCode, error, trace,
                   atStart, win>>

----------------------------------------------------------------------------
(* The filters of parseNewsJson on one item                                *)

\* the months in which the filter runs: every month of 2025 and of 2026
WindowRunDates == { YearMonth(y, m) : y \in {2025, 2026}, m \in 0..11 }

\* the year and month of published_date: every month of 2024 to 2027, and a text
\* that is no date
PublishedDates == { YearMonth(y, m) : y \in 2024..2027, m \in 0..11 } \cup {InvalidDate}

\* the categories of an item: the target category among others, or others only
CategorySets ==
    { {[id |-> "50", parent_id |-> "0"], [id |-> "3", parent_id |-> "0"]},
      {[id |-> "50", parent_id |-> "7"], [id |-> "0", parent_id |-> "50"]} }

\* a news item with the categories and the date
NewsItem(categories, published) ==
    [title |-> "occto_n", published |-> published, url |-> Href("root", "/iinkai/n"),
     categories |-> categories]

\* parseNewsJson on a feed of one item: the item is retained when an entry comes
\* out
WindowCall(now, categories, published) ==
    [pc |-> "filtered", now |-> now, published |-> published,
     inCategory |-> InCategory(NewsItem(categories, published)),
     retained |-> parseNewsJson(<<NewsItem(categories, published)>>, now) # <<>>]

CallWindow ==
    /\ main.pc = "idle"
    /\ win.pc = "idle"
    /\ \E now \in WindowRunDates, categories \in CategorySets,
          published \in PublishedDates :
          win' = WindowCall(now, categories, published)
    /\ UNCHANGED <<sheets, up, last, faults, lg, main, run, exitCode, error, trace,
                   atStart, sc>>

\* the caller has taken the result
CollectWindow ==
    /\ win.pc = "filtered"
    /\ win' = WinIdle
    /\ UNCHANGED <<sheets, up, last, faults, lg, main, run, exitCode, error, trace,
                   atStart, sc>>

----------------------------------------------------------------------------
(* Specifications                                                          *)

\* A new spreadsheet, and the spreadsheet an earlier run (at clock t0) has left
\* after scraping one record for each source.
NewSpreadsheet == [n \in SheetNames |-> NoSheet]

UsedSpreadsheet ==
    [n \in SheetNames |->
        [exists |-> TRUE,
         rows |-> IF n = METI_SHEET_NAME THEN <<MainHeader, RowData(M1)>>
                  ELSE IF n = OCCTO_SHEET_NAME THEN <<MainHeader, RowData(M2)>>
                  ELSE <<HistoryHeader,
                         <<"t0", STATUS_SUCCESS, ProcessedCount(0, 1), "-">> >>]]

Init ==
    /\ sheets \in {NewSpreadsheet, UsedSpreadsheet}
    /\ up = UpIdle
    /\ last = NoCall
    /\ faults = 0
    /\ lg = LgIdle
    /\ main = MainIdle
    /\ run = 0
    /\ exitCode = -1
    /\ error = ""
    /\ trace = <<>>
    /\ atStart = sheets
    /\ sc = ScIdle
    /\ win = WinIdle

\* the process, run after run
Next ==
    \/ StartRun
    \/ Scrape
    \/ UpsertStep
    \/ UpsertDone
    \/ LogStep
    \/ LogSuccessDone
    \/ LogFailureDone

Spec == Init /\ [][Next]_vars

\* upsertMeetings called directly
NextUpsert == CallUpsert \/ UpsertStep \/ CollectUpsert

SpecUpsert == Init /\ [][NextUpsert]_vars

\* scrapeMeetings of an adapter called directly
NextScrape == CallScrape \/ ScrapeList \/ ScrapeDetail \/ ScrapePause \/ ScrapeReturn

SpecScrape == Init /\ [][NextScrape]_vars

\* the filters of parseNewsJson applied to one item
NextWindow == CallWindow \/ CollectWindow

SpecWindow == Init /\ [][NextWindow]_vars

\* One run of the process, or calls of scrapeMeetings, in which every step of a
\* call that has begun is taken in the end: every awaited fetch or store call
\* returns or fails, and the event loop goes on with the continuation.  Nothing
\* obliges the process or a call of scrapeMeetings to be started.
NextTermination ==
    \/ sc.pc = "idle" /\ run = 0 /\ StartRun
    \/ sc.pc = "idle" /\ Scrape
    \/ sc.pc = "idle" /\ UpsertStep
    \/ sc.pc = "idle" /\ UpsertDone
    \/ sc.pc = "idle" /\ LogStep
    \/ sc.pc = "idle" /\ LogSuccessDone
    \/ sc.pc = "idle" /\ LogFailureDone
    \/ run = 0 /\ CallScrape
    \/ run = 0 /\ main.pc = "idle" /\ ScrapeList
    \/ run = 0 /\ main.pc = "idle" /\ ScrapeDetail
    \/ run = 0 /\ main.pc = "idle" /\ ScrapePause
    \/ run = 0 /\ main.pc = "idle" /\ ScrapeReturn

\* the steps of a call that has begun: the continuation after an awaited call.
\* One call is in flight at a time, so at most one of them can be taken.
Continuation ==
    \/ Scrape
    \/ UpsertStep
    \/ UpsertDone
    \/ LogStep
    \/ LogSuccessDone
    \/ LogFailureDone
    \/ ScrapeList
    \/ ScrapeDetail
    \/ ScrapePause
    \/ ScrapeReturn

SpecTermination == Init /\ [][NextTermination]_vars /\ WF_vars(Continuation)

----------------------------------------------------------------------------
(* Vocabulary of the properties                                            *)

Keys(meetings) == { meetings[k].detailUrl : k \in DOMAIN meetings }

DistinctKeys(meetings) ==
    \A i, j \in DOMAIN meetings :
        i # j => meetings[i].detailUrl # meetings[j].detailUrl

\* the data rows are the rows below row 1; their key is the fifth cell
DataIndices(rows) == 2..Len(rows)

RowKeys(rows) == { rows[i][5] : i \in DataIndices(rows) }

DistinctRowKeys(rows) ==
    \A i, j \in DataIndices(rows) : i # j => rows[i][5] # rows[j][5]

\* the rows of the called sheet when the call began, and now
BeforeRows == up.before[up.sheetName].rows
NowRows == sheets[up.sheetName].rows

----------------------------------------------------------------------------
(* C1..C5: upsertMeetings, under SpecUpsert                                *)

\* C1: in every state reached by upsertMeetings calls from a main sheet without
\* duplicate keys, no two data rows of a main sheet share a detailUrl.  It is
\* stated of the behaviours in which no store call has failed, where the claim
\* is at its weakest.
\* (Violated: the map is built once before the loop, so a key that occurs twice
\* in the input and is not yet in the sheet is appended twice.)
C1_KeyUniqueness ==
    faults = 0 => \A n \in MainSheets : DistinctRowKeys(sheets[n].rows)

\* C2: a call that repeats the previous call (same sheet, same input of distinct
\* keys, the previous call having returned) returns updated = len(input) and
\* inserted = 0 and leaves the data rows of the sheet as they were.
\* (Violated when a failed store call was swallowed: after a failed read the
\* second call appends every record again.)
C2_Idempotence ==
    (up.pc = "returned" /\ up.repeat /\ DistinctKeys(up.meetings))
        => /\ up.updated = Len(up.meetings)
           /\ up.inserted = 0
           /\ ValuesGetFromRow2(NowRows) = ValuesGetFromRow2(BeforeRows)

\* C3: when a call on a sheet with distinct keys and an input with distinct keys
\* has returned, (i) every input record whose key was in the sheet is at its old
\* row index with its five cells, (ii) the records whose key was absent are the
\* last rows of the sheet, below the old last row, in input order, and (iii)
\* updated and inserted count the present and the absent keys.
\* (Violated when the read of the existing rows failed and was swallowed.)
C3_UpsertResult ==
    (up.pc = "returned" /\ DistinctRowKeys(BeforeRows) /\ DistinctKeys(up.meetings))
        => LET IsAbsent(m) == m.detailUrl \notin RowKeys(BeforeRows)
               absent == SelectSeq(up.meetings, IsAbsent)
               n == Len(absent)
           IN /\ \A k \in DOMAIN up.meetings :
                    \A i \in DataIndices(BeforeRows) :
                        BeforeRows[i][5] = up.meetings[k].detailUrl
                            => /\ i <= Len(NowRows)
                               /\ NowRows[i] = RowData(up.meetings[k])
              /\ Len(NowRows) - n >= Len(BeforeRows)
              /\ \A j \in 1..n : NowRows[Len(NowRows) - n + j] = RowData(absent[j])
              /\ up.inserted = n
              /\ up.updated = Len(up.meetings) - n

\* C4 (frame, in every state of a call): a data row whose key is not in the
\* input is at its index with its cells, and every other sheet of the
\* spreadsheet, the other main sheet and the history sheets, is as it was.
C4_FrameInCall ==
    up.pc # "idle"
        => /\ \A i \in DataIndices(BeforeRows) :
                 BeforeRows[i][5] \notin Keys(up.meetings)
                     => i <= Len(NowRows) /\ NowRows[i] = BeforeRows[i]
           /\ \A n \in SheetNames \ {up.sheetName} : sheets[n] = up.before[n]

\* C4 (no deletion, every step): no main sheet loses a row.
C4_NoRowRemoved ==
    \A n \in MainSheets : Len(sheets'[n].rows) >= Len(sheets[n].rows)

\* C4: across any sequence of upsertMeetings calls the number of rows of a main
\* sheet never decreases, a data row whose detailUrl is not in the call's input
\* keeps its row index and its five cells, and the call changes no other sheet.
C4_NoDeletionAndFrame == []C4_FrameInCall /\ [][C4_NoRowRemoved]_vars

\* C4 witness: a returned call that wrote, on a sheet holding a data row whose
\* key was not in the input, while the other sheets hold rows.
C4_Witness ==
    /\ up.pc = "returned"
    /\ up.updated + up.inserted > 0
    /\ \E i \in DataIndices(BeforeRows) : BeforeRows[i][5] \notin Keys(up.meetings)
    /\ \A n \in SheetNames \ {up.sheetName} : Len(sheets[n].rows) >= 2

\* the rows after the writes for the first k meetings, applied in input order
RECURSIVE Replay(_, _, _, _)
Replay(rows, urlToRowIndex, meetings, k) ==
    IF k = 0 THEN rows
    ELSE ApplyWrite(Replay(rows, urlToRowIndex, meetings, k - 1),
                    urlToRowIndex, meetings[k])

\* C5: the k-th write issued is the write for the k-th input record; only the
\* last write issued can have failed, and then the call has raised its error; a
\* returned call has issued one write per record; the rows of the sheet are the
\* rows read plus the completed writes, in order (nothing is rolled back and
\* nothing is written after a failure).
C5_WriteOrdering ==
    (up.pc \in {"loop", "returned"} \/ (up.pc = "raised" /\ up.error = "write_error"))
        => LET w == up.writes
               n == Len(w)
               done == IF n > 0 /\ ~w[n].ok THEN n - 1 ELSE n
           IN /\ n <= Len(up.meetings)
              /\ \A k \in 1..n :
                    /\ w[k].row = RowData(up.meetings[k])
                    /\ w[k].kind = WriteKind(up.urlToRowIndex, up.meetings[k])
              /\ \A k \in 1..(n - 1) : w[k].ok
              /\ up.pc = "loop" => (done = n /\ up.i = n + 1)
              /\ up.pc = "returned" => (done = n /\ n = Len(up.meetings))
              /\ up.pc = "raised" => done = n - 1
              /\ up.updated + up.inserted = done
              /\ NowRows = Replay(up.rowsAtRead, up.urlToRowIndex, up.meetings, done)

\* C5 witness: the write for the second record failed after the first completed.
C5_Witness ==
    /\ up.pc = "raised"
    /\ Len(up.writes) = 2
    /\ up.writes[1].ok
    /\ ~up.writes[2].ok
    /\ NowRows # up.rowsAtRead

----------------------------------------------------------------------------
(* C6..C10: main(), under Spec                                             *)

\* the run has ended: the process has exited
Ended == main.pc = "idle" /\ exitCode # -1

\* the entry point of the run
Started(entry) == trace # <<>> /\ trace[1] = Ev("start", entry, "", "")

Has(e) == \E k \in DOMAIN trace : trace[k] = e

\* the scrape or the upsert of the source raised in this run
ScrapeRaisedIn(src) ==
    \E k \in DOMAIN trace :
        trace[k].op = "scrape" /\ trace[k].target = src /\ trace[k].status = "raised"

UpsertRaisedIn(src) ==
    \E k \in DOMAIN trace :
        trace[k].op = "upsertDone" /\ trace[k].target = src /\ trace[k].status = "raised"

FailedIn(src) == ScrapeRaisedIn(src) \/ UpsertRaisedIn(src)

\* the message of the error raised in this run
IsRaise(e) == e.op \in {"scrape", "upsertDone"} /\ e.status = "raised"
RaisedMessage == SelectSeq(trace, IsRaise)[1].msg

\* scrapeMeetings or upsertMeetings of the source was invoked in this run
ScrapeInvoked(src) ==
    \E k \in DOMAIN trace : trace[k].op = "scrape" /\ trace[k].target = src

UpsertInvoked(src) ==
    \E k \in DOMAIN trace : trace[k].op = "upsert" /\ trace[k].target = src

\* the rows a history sheet has got in this run, by their row index
RowsOfRun(h) ==
    { i \in DOMAIN sheets[h].rows : sheets[h].rows[i][1] = Timestamp }

RowsOfRunWith(h, status) ==
    { i \in RowsOfRun(h) : sheets[h].rows[i][2] = status }

HasHistoryRow(h, status, processedCount) ==
    \E i \in DOMAIN sheets[h].rows :
        sheets[h].rows[i] = <<Timestamp, status, processedCount, "-">>

\* a logExecution call on the sheet returned in this run without its row
LogLost(h) == Has(Ev("logDone", h, "failed", ""))

\* C6 as claimed: once METI's scrape or upsert has raised, OCCTO is never
\* scraped or upserted, and when the process has exited its status is 1 and
\* METI's history holds the FAILURE row with the error's message.
\* (Violated: logExecution swallows a failed store call, and then no row is
\* appended.)
C6_FailureRowAppended ==
    FailedIn("METI")
        => /\ ~ScrapeInvoked("OCCTO") /\ ~UpsertInvoked("OCCTO")
           /\ Ended => /\ exitCode = 1
                       /\ HasHistoryRow(METI_HISTORY_SHEET_NAME, STATUS_FAILURE,
                                        RaisedMessage)

\* C6 as amended: once METI's scrape or upsert has raised, OCCTO is never
\* scraped or upserted; logExecution is called for METI's history with FAILURE
\* and the error's message, and when the process has exited its status is 1 and
\* METI's history holds that row unless a store call of that logExecution
\* failed.
C6_FailurePropagation ==
    FailedIn("METI")
        => /\ ~ScrapeInvoked("OCCTO") /\ ~UpsertInvoked("OCCTO")
           /\ Has(Ev("log", METI_HISTORY_SHEET_NAME, STATUS_FAILURE, RaisedMessage))
           /\ Ended => /\ exitCode = 1
                       /\ \/ HasHistoryRow(METI_HISTORY_SHEET_NAME, STATUS_FAILURE,
                                           RaisedMessage)
                          \/ LogLost(METI_HISTORY_SHEET_NAME) /\ faults > 0

\* C6 witness: METI's upsert raised, the process has exited and METI's history
\* holds the FAILURE row.
C6_Witness ==
    /\ Ended
    /\ UpsertRaisedIn("METI")
    /\ HasHistoryRow(METI_HISTORY_SHEET_NAME, STATUS_FAILURE, RaisedMessage)

\* C7: when METI's scrape or upsert raised in a run of index.ts, OCCTO's scrape
\* has been invoked by the time the process exits.  (Violated: the only catch is the top-level one.)
C7_IndependentFailure ==
    (Ended /\ Started("index") /\ FailedIn("METI")) => ScrapeInvoked("OCCTO")

\* every scrape and every upsert of the run completed without raising
AllCompleted ==
    \A src \in { s \in Sources : Started("index") \/ s = "METI" } :
        /\ \/ Has(Ev("scrape", src, "empty", ""))
           \/ Has(Ev("scrape", src, "records", ""))
        /\ ~FailedIn(src)
        /\ UpsertInvoked(src) => Has(Ev("upsertDone", src, "returned", ""))

\* what main() called on the history sheets, and its exit, in order
IsLogOrExit(e) == e.op \in {"log", "exit"}
LogsAndExit == SelectSeq(trace, IsLogOrExit)

\* C8: the process started from index.ts exits with status 0 exactly when every
\* scrape and upsert completed without raising; after a raise it exits with
\* status 1, and the last things main() did before that exit are a logExecution
\* call with FAILURE and the error's message on METI's history, then one on
\* OCCTO's, which has returned.
C8_ExitContract ==
    (Ended /\ Started("index"))
        => /\ exitCode \in {0, 1}
           /\ exitCode = 0 <=> AllCompleted
           /\ (\E src \in Sources : FailedIn(src))
                 => LET c == LogsAndExit
                        n == Len(c)
                    IN /\ exitCode = 1
                       /\ n >= 3
                       /\ c[n - 2] = Ev("log", METI_HISTORY_SHEET_NAME,
                                        STATUS_FAILURE, RaisedMessage)
                       /\ c[n - 1] = Ev("log", OCCTO_HISTORY_SHEET_NAME,
                                        STATUS_FAILURE, RaisedMessage)
                       /\ c[n] = Ev("exit", "", "1", "")
                       /\ Has(Ev("logDone", OCCTO_HISTORY_SHEET_NAME, "appended", ""))
                            \/ LogLost(OCCTO_HISTORY_SHEET_NAME)

\* C8 witness: OCCTO's upsert raised after METI completed, and the process has
\* exited with status 1.
C8_Witness ==
    /\ Ended
    /\ Started("index")
    /\ exitCode = 1
    /\ UpsertRaisedIn("OCCTO")
    /\ Has(Ev("upsertDone", "METI", "returned", ""))

\* C9 as claimed: a history sheet gets at most one row in a run.
\* (Violated: METI completes and logs SUCCESS, OCCTO raises, and the catch logs
\* FAILURE to both histories.)
C9_OneRowPerRun ==
    run > 0 => \A h \in HistorySheets : Cardinality(RowsOfRun(h)) <= 1

\* C9 as amended: in a run a history sheet gets at most one SUCCESS row and at
\* most one FAILURE row; OCCTO's history never gets both; METI's history gets
\* both only when METI completed and OCCTO then raised, the SUCCESS row first.
C9_OneRowPerStatus ==
    run > 0
        => /\ \A h \in HistorySheets :
                 /\ Cardinality(RowsOfRunWith(h, STATUS_SUCCESS)) <= 1
                 /\ Cardinality(RowsOfRunWith(h, STATUS_FAILURE)) <= 1
                 /\ Cardinality(RowsOfRun(h)) <= 2
           /\ Cardinality(RowsOfRun(OCCTO_HISTORY_SHEET_NAME)) <= 1
           /\ Cardinality(RowsOfRun(METI_HISTORY_SHEET_NAME)) = 2
                 => /\ FailedIn("OCCTO")
                    /\ ~FailedIn("METI")
                    /\ \A i \in RowsOfRunWith(METI_HISTORY_SHEET_NAME, STATUS_SUCCESS),
                          j \in RowsOfRunWith(METI_HISTORY_SHEET_NAME, STATUS_FAILURE) :
                          i < j

\* C9 witness: METI's history has got a SUCCESS row and a FAILURE row in the run.
C9_Witness ==
    /\ Ended
    /\ Cardinality(RowsOfRunWith(METI_HISTORY_SHEET_NAME, STATUS_SUCCESS)) = 1
    /\ Cardinality(RowsOfRunWith(METI_HISTORY_SHEET_NAME, STATUS_FAILURE)) = 1

\* what follows an empty scrape at position k of the trace; rowKept says what
\* is claimed of the history row once the logExecution call has returned
AfterEmptyScrape(k, rowKept) ==
    LET src == trace[k].target
        h == HistorySheetOf(src)
        n == Len(trace)
    IN /\ ~UpsertInvoked(src)
       /\ sheets[MainSheetOf(src)] = atStart[MainSheetOf(src)]
       /\ k + 1 <= n
       /\ trace[k + 1] = Ev("log", h, STATUS_SUCCESS, ZeroCount)
       /\ k + 2 <= n
            => /\ trace[k + 2].op = "logDone"
               /\ trace[k + 2].target = h
               /\ rowKept
               /\ (src = "METI" /\ Started("index"))
                    => IF k + 3 <= n
                          THEN trace[k + 3].op = "scrape" /\ trace[k + 3].target = "OCCTO"
                          ELSE main.pc = "scrape" /\ main.src = "OCCTO"
               /\ (src = "OCCTO" \/ Started("runner"))
                    => /\ n = k + 3
                       /\ trace[k + 3] = Ev("exit", "", "0", "")
                       /\ exitCode = 0

EmptyScrapes ==
    { k \in DOMAIN trace : trace[k].op = "scrape" /\ trace[k].status = "empty" }

\* C10 as claimed: after a scrape that returned no record, upsertMeetings is not
\* invoked for the source and its main sheet stays as it was at the start of the
\* run; logExecution is called with SUCCESS and the zero count, and once it has
\* returned the source's history holds that row; then OCCTO's scrape follows
\* METI's, and the process exits with status 0 after the last source's.
\* (Violated: logExecution swallows a failed store call, and then no row is
\* appended.)
C10_EmptyScrapeRowAppended ==
    \A k \in EmptyScrapes :
        AfterEmptyScrape(k,
            HasHistoryRow(HistorySheetOf(trace[k].target), STATUS_SUCCESS, ZeroCount))

\* C10 as amended: the same, the history holding the row unless a store call of
\* that logExecution failed.
C10_EmptyScrape ==
    \A k \in EmptyScrapes :
        AfterEmptyScrape(k,
            IF trace[k + 2].status = "appended"
                THEN HasHistoryRow(HistorySheetOf(trace[k].target), STATUS_SUCCESS,
                                   ZeroCount)
                ELSE faults > 0)

\* C10 witness: METI's scrape was empty on a new spreadsheet; the run went on to
\* OCCTO and has ended, METI's history holds the row and METI's main sheet was
\* not created.
C10_Witness ==
    /\ Ended
    /\ Has(Ev("scrape", "METI", "empty", ""))
    /\ ScrapeInvoked("OCCTO")
    /\ HasHistoryRow(METI_HISTORY_SHEET_NAME, STATUS_SUCCESS, ZeroCount)
    /\ ~sheets[METI_SHEET_NAME].exists

----------------------------------------------------------------------------
(* C11, C12: logExecution, under Spec                                      *)

\* what main() does after the logExecution call at position k of the trace has
\* returned, by the call alone
AfterLog(k) ==
    LET lastHistory == IF Started("index") THEN OCCTO_HISTORY_SHEET_NAME
                       ELSE METI_HISTORY_SHEET_NAME
    IN IF trace[k].status = STATUS_SUCCESS
          THEN IF trace[k].target = lastHistory
                  THEN Ev("exit", "", "0", "")
                  ELSE Ev("scrape", "OCCTO", "", "")
          ELSE IF trace[k].target = lastHistory
                  THEN Ev("exit", "", "1", "")
                  ELSE Ev("log", OCCTO_HISTORY_SHEET_NAME, STATUS_FAILURE, trace[k].msg)

\* C11: after a failed store call (client creation, sheet lookup, sheet
\* creation, header write, row append) logExecution goes on to its append or
\* returns, and never leaves as an exception; every logExecution call of main()
\* is followed by its return, and what main() does next is given by the call
\* alone, whether the row was appended or not; the exit status is 1 exactly when
\* a scrape or an upsert raised.
C11_LogNeverRaises ==
    /\ lg.pc \in {"idle", "client", "lookup", "addSheet", "header", "append", "returned"}
    /\ lg.failedAt # "" => lg.pc \in {"append", "returned"}
    /\ lg.failedAt \in {"client", "append"} => (lg.pc = "returned" /\ ~lg.appended)
    /\ \A k \in DOMAIN trace :
          (trace[k].op = "log" /\ k < Len(trace))
              => /\ trace[k + 1].op = "logDone"
                 /\ trace[k + 1].target = trace[k].target
                 /\ LET a == AfterLog(k)
                    IN IF k + 2 <= Len(trace)
                          THEN /\ trace[k + 2].op = a.op
                               /\ trace[k + 2].target = a.target
                               /\ a.op # "scrape" => trace[k + 2] = a
                          ELSE /\ a.op = "scrape"
                               /\ main.pc = "scrape"
                               /\ main.src = a.target
    /\ Ended => exitCode = IF \E src \in Sources : FailedIn(src) THEN 1 ELSE 0

\* C11 witness: in a run of index.ts METI's SUCCESS row was lost to a failed
\* store call, OCCTO was processed all the same and the process exited with 0.
C11_Witness ==
    /\ Ended
    /\ Started("index")
    /\ LogLost(METI_HISTORY_SHEET_NAME)
    /\ Has(Ev("upsertDone", "OCCTO", "returned", ""))
    /\ exitCode = 0

\* C12 (state): a logExecution call that has appended its row has returned, and
\* a returned call none of whose store calls failed has appended its row.
C12_OneRowPerCall ==
    /\ lg.appended => lg.pc = "returned"
    /\ (lg.pc = "returned" /\ lg.failedAt = "") => lg.appended

\* C12 (step): in every step every row a history sheet holds stays at its index
\* with its cells and the sheet stays in existence; a history sheet grows by one
\* row at a time, which is either the header put on the blank sheet just created
\* or the row [timestamp, status, summary, detail] of the running logExecution
\* call, appended last, once in the call.
C12_HistoryStep ==
    \A h \in HistorySheets :
        LET rows == sheets[h].rows
            rowsAfter == sheets'[h].rows
        IN /\ sheets[h].exists => sheets'[h].exists
           /\ Len(rowsAfter) >= Len(rows)
           /\ \A i \in DOMAIN rows : rowsAfter[i] = rows[i]
           /\ Len(rowsAfter) > Len(rows)
                => /\ Len(rowsAfter) = Len(rows) + 1
                   /\ h = lg.sheetName
                   /\ \/ /\ lg.pc = "header"
                         /\ rows = <<>>
                         /\ rowsAfter = <<HistoryHeader>>
                      \/ /\ lg.pc = "append"
                         /\ ~lg.appended
                         /\ lg'.pc = "returned"
                         /\ lg'.appended
                         /\ rowsAfter[Len(rowsAfter)] =
                                <<Timestamp, lg.status, lg.processedCount, lg.errorDetail>>

\* C12: history sheets are append-only, one row per logExecution call at most.
C12_HistoryAppendOnly == []C12_OneRowPerCall /\ [][C12_HistoryStep]_vars

\* C12 witness: a logExecution call has appended its row below the header and
\* the row of an earlier run.
C12_Witness ==
    /\ lg.pc = "returned"
    /\ lg.appended
    /\ Len(sheets[lg.sheetName].rows) = 3
    /\ sheets[lg.sheetName].rows[2][1] = "t0"

----------------------------------------------------------------------------
(* C13..C16: the adapters, under SpecScrape                                *)

\* the detail fetches of the call, in order
IsDetailFetch(e) == e.op = "detail"
DetailFetches == SelectSeq(sc.net, IsDetailFetch)

\* C13: no record that scrapeMeetings of either adapter has emitted, and so no
\* record it returns, has an empty date, whatever the listing and the detail
\* pages hold and whichever detail fetches fail.
C13_NoEmptyDate == \A k \in DOMAIN sc.meetings : sc.meetings[k].date # ""

\* C13 witness: OCCTO's scrapeMeetings has returned one record of two entries,
\* one of its detail fetches having failed.
C13_Witness ==
    /\ sc.pc = "returned"
    /\ sc.adapter = "OCCTO"
    /\ Len(sc.entries) = 2
    /\ Len(sc.meetings) = 1
    /\ \E j \in DOMAIN DetailFetches : ~DetailFetches[j].ok

\* the dates of the form YYYY-MM-DD
CanonicalDates ==
    { FormatDate(<<y, m, d>>) : y \in 2025..2027, m \in 1..12, d \in 1..31 }

\* C14: every record that scrapeMeetings of either adapter has emitted has a date
\* of the form YYYY-MM-DD, a candidate whose date text holds no year/month/day
\* being dropped.
\* (Violated: METI's parseDate gives back the text it cannot parse, and the
\* record is emitted with that text as its date.)
C14_CanonicalDates ==
    \A k \in DOMAIN sc.meetings : sc.meetings[k].date \in CanonicalDates

\* C15: between any two consecutive detail fetches of a call at least 500 ms of
\* pause have passed.
\* (Violated: OCCTO's loop leaves an entry without date with `continue`, before
\* the pause at the end of the loop body.)
C15_RateLimiting ==
    \A j \in DOMAIN DetailFetches :
        j > 1 => DetailFetches[j].at - DetailFetches[j - 1].at >= PAUSE_MS

\* C16: a call raises only from its failed listing (the fetch failed, or OCCTO
\* could not parse the body it fetched), no detail page having been fetched;
\* after a listing that was fetched and parsed the entries' detail pages are
\* fetched one each, in order, whichever of them fail, and a returned call has
\* fetched them all; an entry of METI whose detail fetch failed is emitted with empty
\* time and agenda, an entry of OCCTO whose detail fetch failed is not emitted.
C16_FailureIsolation ==
    LET d == DetailFetches
        okFetches == { j \in DOMAIN d : d[j].ok }
    IN /\ sc.pc = "raised"
            => /\ \E fetched \in BOOLEAN : sc.net = <<Fetch("list", 0, 0, fetched)>>
               /\ sc.adapter = "METI" => ~sc.net[1].ok
               /\ sc.meetings = <<>>
       /\ (sc.net # <<>> /\ ~sc.net[1].ok) => sc.pc = "raised"
       /\ \A j \in DOMAIN d : d[j].i = j /\ j <= Len(sc.entries)
       /\ sc.pc = "returned" => Len(d) = Len(sc.entries)
       /\ sc.adapter = "METI"
            => /\ Len(sc.meetings) = Len(d)
               /\ \A j \in DOMAIN d :
                     ~d[j].ok
                        => sc.meetings[j] =
                              MeetingData(sc.entries[j].name, sc.entries[j].date, "", "",
                                          sc.entries[j].detailUrl)
       /\ sc.adapter = "OCCTO" => Len(sc.meetings) <= Cardinality(okFetches)

\* C16 witness: METI's scrapeMeetings has returned two records, the first
\* entry's detail fetch having failed and the second's not.
C16_Witness ==
    /\ sc.pc = "returned"
    /\ sc.adapter = "METI"
    /\ Len(DetailFetches) = 2
    /\ ~DetailFetches[1].ok
    /\ DetailFetches[2].ok
    /\ Len(sc.meetings) = 2
    /\ sc.meetings[2].time # ""

----------------------------------------------------------------------------
(* C17: the order of the operations of main(), under Spec                  *)

\* the operations of main() that are in flight: a scrape, an upsertMeetings call
\* that has not returned or raised, a logExecution call that has not returned
InFlight ==
    (IF main.pc = "scrape" THEN {"scrape"} ELSE {})
    \cup (IF up.pc \notin {"idle", "returned", "raised"} THEN {"upsert"} ELSE {})
    \cup (IF lg.pc \notin {"idle", "returned"} THEN {"log"} ELSE {})

\* the number of entries of the first k entries of the trace with the operation
OpCount(op, k) == Cardinality({j \in 1..k : trace[j].op = op})

\* the calls of upsertMeetings and logExecution among the first k entries of the
\* trace that have not completed among them
OpenCalls(k) ==
    (OpCount("upsert", k) - OpCount("upsertDone", k))
    + (OpCount("log", k) - OpCount("logDone", k))

\* C17: at most one operation is in flight; every call has completed before the
\* next one is made and before a scrape result is there; METI's scrape is the
\* first operation of the run, and OCCTO's scrape comes after METI's scrape has
\* returned, after every upsertMeetings call on METI's sheet has returned and
\* right after the logExecution call on METI's history has returned.
C17_StrictSequencing ==
    /\ Cardinality(InFlight) <= 1
    /\ main.pc = "scrape" => up = UpIdle /\ lg = LgIdle
    /\ \A k \in DOMAIN trace :
          /\ OpenCalls(k) \in {0, 1}
          /\ trace[k].op \in {"scrape", "upsert", "log"} => OpenCalls(k - 1) = 0
          /\ trace[k].op = "scrape" /\ trace[k].target = "METI" => k = 2
          /\ trace[k].op = "scrape" /\ trace[k].target = "OCCTO" =>
                /\ trace[2].op = "scrape" /\ trace[2].target = "METI"
                /\ trace[2].status # "raised"
                /\ trace[2].status = "records" =>
                       /\ trace[3] = Ev("upsert", "METI", "called", "")
                       /\ trace[4] = Ev("upsertDone", "METI", "returned", "")
                /\ trace[k - 1].op = "logDone"
                /\ trace[k - 1].target = METI_HISTORY_SHEET_NAME
                /\ \A j \in 1..(k - 1) :
                       trace[j].op \in {"upsert", "upsertDone"} => trace[j].target = "METI"

\* METI has been scraped, upserted and logged, and a write of OCCTO's upsert is
\* in flight
C17_Witness ==
    /\ Has(Ev("upsertDone", "METI", "returned", ""))
    /\ Has(Ev("scrape", "OCCTO", "records", ""))
    /\ main.pc = "upsert" /\ main.src = "OCCTO"
    /\ up.pc = "loop"
    /\ InFlight = {"upsert"}


----------------------------------------------------------------------------
(* C18: duplicate keys in the sheet, under SpecUpsert                      *)

\* the indices of the rows read (row 2 onward) whose fifth cell is the url; an
\* empty fifth cell is no key (line 117)
RowsWithKey(rows, url) == {r \in DataIndices(rows) : url # "" /\ rows[r][5] = url}

\* the greatest element of a non-empty set of numbers
Greatest(S) == CHOOSE r \in S : \A q \in S : q <= r

\* the positions of the input records with the url whose write has completed
WrittenWithKey(url) == {k \in 1..(up.i - 1) : up.meetings[k].detailUrl = url}

\* C18: in every call, for every key that several rows of the sheet held when
\* the call began: every write for a record with the key is an update and is
\* counted as one update, the row with the greatest index among them holds the
\* cells of the last record written with the key, the other rows with the key
\* are as they were, and the rows with the key are the same rows as before.
\* (Violated when the read of the existing rows failed and was swallowed: the
\* map is built from no rows and the record is appended.)
C18_LastSeenMapping ==
    up.pc \in {"loop", "returned"}
        => \A url \in Keys(up.meetings) :
              LET dup == RowsWithKey(BeforeRows, url)
                  done == WrittenWithKey(url)
              IN Cardinality(dup) >= 2
                    => /\ url \in DOMAIN up.urlToRowIndex
                       /\ up.urlToRowIndex[url] = Greatest(dup)
                       /\ \A k \in done : up.writes[k].kind = "update" /\ up.writes[k].ok
                       /\ done # {} =>
                             NowRows[Greatest(dup)] = RowData(up.meetings[Greatest(done)])
                       /\ \A r \in dup \ {Greatest(dup)} : NowRows[r] = BeforeRows[r]
                       /\ RowsWithKey(NowRows, url) = dup
                       /\ up.updated >= Cardinality(done)

----------------------------------------------------------------------------
(* C19: the month window, under SpecWindow                                 *)

\* the months counted across the years: January of year 0 is month 0
MonthIndex(ym) == ym.year * 12 + ym.month

\* C19: for every run date, an item is retained exactly when it is of the target
\* category and its published_date is a date of the month of the run or of one of
\* the next two months, counted across the year boundary; a run in December 2025
\* retains January 2026 and February 2026 and not April 2026 nor January 2025.
C19_MonthWindow ==
    win.pc = "filtered"
        => /\ win.retained <=>
                 /\ win.inCategory
                 /\ win.published # InvalidDate
                 /\ MonthIndex(win.published) - MonthIndex(win.now) \in {0, 1, 2}
           /\ (win.now = YearMonth(2025, 11) /\ win.inCategory)
                 => /\ win.published \in {YearMonth(2026, 0), YearMonth(2026, 1)}
                          => win.retained
                    /\ win.published \in {YearMonth(2026, 3), YearMonth(2025, 0)}
                          => ~win.retained

\* a run in December has retained an item of February of the next year
C19_Witness ==
    /\ win.pc = "filtered"
    /\ win.now.month = 11
    /\ win.published = YearMonth(win.now.year + 1, 1)
    /\ win.inCategory
    /\ win.retained

----------------------------------------------------------------------------
(* C20: ensureMainSheetExists, under SpecUpsert                            *)

\* the call is past its ensure step: it reads, writes, has returned, or a write
\* has raised
PastEnsure ==
    \/ up.pc \in {"read", "loop", "returned"}
    \/ up.pc = "raised" /\ up.error = "write_error"

\* C20 (state): after the ensure step the sheet of the call exists and its row 1
\* is the header of five columns.
C20_HeaderAfterEnsure ==
    PastEnsure
        => /\ SheetExists(sheets, up.sheetName)
           /\ Len(NowRows) >= 1
           /\ NowRows[1] = MainHeader

\* C20 (step): the ensure step of a sheet that exists writes nothing.
C20_NoWriteWhenExists ==
    (up.pc = "lookup" /\ SheetExists(sheets, up.sheetName))
        => (sheets' = sheets /\ up'.pc = "read")

\* C20: in every state of every sequence of upsertMeetings calls, store failures
\* inside the ensure step included, the sheet exists with the header in row 1
\* once the ensure step is over, and the ensure step writes nothing when the sheet
\* exists.
\* (Violated: a failure inside ensureMainSheetExists is caught and the call goes
\* on without the sheet or with a sheet without header.)
C20_HeaderInvariant == []C20_HeaderAfterEnsure /\ [][C20_NoWriteWhenExists]_vars

----------------------------------------------------------------------------
(* C21: the SUCCESS row, under Spec                                        *)

\* the step calls logExecution with the status
LogCalled(status) ==
    /\ lg.pc \in {"idle", "returned"}
    /\ lg'.pc = "client"
    /\ lg'.status = status

\* the step appends a row with the status to the history sheet
RowAppended(h, status) ==
    /\ Len(sheets'[h].rows) = Len(sheets[h].rows) + 1
    /\ sheets'[h].rows[Len(sheets'[h].rows)][2] = status

\* C21 (step): logExecution is called with SUCCESS on the history of the source
\* either on an empty scrape, with the summary of no records, or on the return of
\* the source's upsertMeetings call, every record written, with the counts the
\* call returns; the frame of a running logExecution call keeps its arguments;
\* and a SUCCESS row is appended by such a call for the source, with its
\* summary, when no upsertMeetings call is running.
C21_SuccessStep ==
    /\ LogCalled(STATUS_SUCCESS)
          => /\ lg'.sheetName = HistorySheetOf(main.src)
             /\ \/ /\ main.pc = "scrape"
                   /\ up = UpIdle
                   /\ lg'.processedCount = ZeroCount
                \/ /\ main.pc = "upsert"
                   /\ up.pc = "returned"
                   /\ up.sheetName = MainSheetOf(main.src)
                   /\ Len(up.writes) = Len(up.meetings)
                   /\ \A k \in DOMAIN up.writes : up.writes[k].ok
                   /\ \A k \in DOMAIN up.meetings :
                         \E i \in DOMAIN sheets[up.sheetName].rows :
                             sheets[up.sheetName].rows[i] = RowData(up.meetings[k])
                   /\ lg'.processedCount = ProcessedCount(up.updated, up.inserted)
    /\ (lg.pc \notin {"idle", "returned"} /\ lg'.pc # "idle")
          => /\ lg'.sheetName = lg.sheetName
             /\ lg'.status = lg.status
             /\ lg'.processedCount = lg.processedCount
    /\ \A h \in HistorySheets :
          RowAppended(h, STATUS_SUCCESS)
              => /\ main.pc = "logSuccess"
                 /\ h = HistorySheetOf(main.src)
                 /\ h = lg.sheetName /\ lg.status = STATUS_SUCCESS
                 /\ sheets'[h].rows[Len(sheets'[h].rows)][3] = lg.processedCount
                 /\ up = UpIdle
                 /\ ~FailedIn(main.src)
                 /\ UpsertInvoked(main.src)
                       => Has(Ev("upsertDone", main.src, "returned", ""))

\* C21 (state): the history of a source whose scrape or upsert has raised in the
\* run holds no SUCCESS row of the run, and while a source is scraped or
\* upserted its history holds none either.
C21_NoSuccessRow ==
    \A src \in Sources :
        (trace # <<>>
         /\ (FailedIn(src) \/ (main.src = src /\ main.pc \in {"scrape", "upsert"})))
            => RowsOfRunWith(HistorySheetOf(src), STATUS_SUCCESS) = {}

\* C21: a SUCCESS row of a source is appended only after every write of the
\* source's upsert has completed, its summary is made of the counts that upsert
\* returned, and a source whose scrape or upsert raised gets no SUCCESS row in
\* the run.
C21_SuccessAfterWrites == []C21_NoSuccessRow /\ [][C21_SuccessStep]_vars

\* OCCTO's SUCCESS row is in its history with the counts of an upsert of two
\* records, after METI's
C21_Witness ==
    /\ main.pc = "logSuccess" /\ main.src = "OCCTO"
    /\ lg.appended
    /\ last.outcome = "returned" /\ Len(last.meetings) = 2
    /\ lg.processedCount # ZeroCount
    /\ HasHistoryRow(OCCTO_HISTORY_SHEET_NAME, STATUS_SUCCESS, lg.processedCount)
    /\ RowsOfRunWith(METI_HISTORY_SHEET_NAME, STATUS_SUCCESS) # {}

----------------------------------------------------------------------------
(* C22, C23: the counts of upsertMeetings, under SpecUpsert                *)

\* the number of writes of the kind the call has issued
WritesOfKind(kind) ==
    Cardinality({k \in DOMAIN up.writes : up.writes[k].kind = kind})

\* the number of data rows, the rows of the region read from row 2 on
DataRowCount(rows) == Cardinality(DataIndices(rows))

\* C22: when upsertMeetings has returned, updated + inserted is the number of
\* input records, updated is the number of update writes issued, inserted is the
\* number of append writes issued, and the sheet has inserted data rows more
\* than when the call began.
\* (Violated after a swallowed failure of the header write: the sheet is blank
\* and the first appended record is row 1, which is no data row.)
C22_CountConservation ==
    up.pc = "returned"
        => /\ up.updated + up.inserted = Len(up.meetings)
           /\ WritesOfKind("update") = up.updated
           /\ WritesOfKind("append") = up.inserted
           /\ DataRowCount(NowRows) = DataRowCount(BeforeRows) + up.inserted

\* the rows of the first k input records, in input order
RECURSIVE RowsOfInput(_, _)
RowsOfInput(meetings, k) ==
    IF k = 0 THEN <<>> ELSE Append(RowsOfInput(meetings, k - 1), RowData(meetings[k]))

\* C23: once the read of the existing rows has failed in a call, the call goes
\* on and raises for no other reason than a failed write; its map is empty,
\* every write it issues is an append, updated stays 0, the sheet holds the rows
\* it held at the read followed by the rows of the records written so far, and
\* when the call has returned inserted is the number of input records, whether
\* or not the sheet held rows with their keys.
C23_SwallowedReadFailure ==
    (up.pc \in {"loop", "returned", "raised"} /\ ~up.readOk)
        => /\ up.pc = "raised" => up.error = "write_error"
           /\ up.urlToRowIndex = EmptyMap
           /\ \A k \in DOMAIN up.writes : up.writes[k].kind = "append"
           /\ up.updated = 0
           /\ up.inserted = up.i - 1
           /\ SheetExists(sheets, up.sheetName)
                 => NowRows = up.rowsAtRead \o RowsOfInput(up.meetings, up.i - 1)
           /\ up.pc = "returned"
                 => /\ up.inserted = Len(up.meetings)
                    /\ WritesOfKind("append") = Len(up.meetings)

\* a call whose read failed has returned after appending a record whose key a
\* data row of the sheet held
C23_Witness ==
    /\ up.pc = "returned"
    /\ ~up.readOk
    /\ up.inserted = Len(up.meetings) /\ up.inserted >= 1
    /\ \E k \in DOMAIN up.meetings :
          up.meetings[k].detailUrl \in RowKeys(up.rowsAtRead)

----------------------------------------------------------------------------
(* C24: termination, under SpecTermination                                 *)

\* a call of scrapeMeetings is running, and it is over
Scraping == sc.pc \in {"list", "detail", "pause"}
ScrapeOver == sc.pc \in {"returned", "raised"}

\* C24 (state): a call of scrapeMeetings has fetched at most one detail page
\* for each entry of its listing, a call of upsertMeetings has issued at most one
\* row write for each record it was given, and a process that has exited has
\* exited with status 0 after every source of its entry point was scraped and
\* upserted without raising, or with status 1.
C24_Bounded ==
    /\ Len(DetailFetches) <= Len(sc.entries)
    /\ sc.pc \in {"detail", "pause", "returned"} => sc.i <= Len(sc.entries) + 1
    /\ Len(up.writes) <= Len(up.meetings)
    /\ main.pc = "upsert" => Len(up.meetings) \in 1..MaxInput
    /\ Ended => /\ exitCode \in {0, 1}
                /\ exitCode = 0 => AllCompleted

\* C24: every call of scrapeMeetings that has begun returns or raises, every run
\* of the process that has begun exits, with status 0 after finishing its
\* sources or with status 1, and the fetches and the row writes are bounded by
\* the entries and the records.  (A run and a call of scrapeMeetings are not
\* in one behaviour, so what is begun is what must end.)
C24_Termination ==
    /\ []C24_Bounded
    /\ (main.pc # "idle" \/ Scraping) ~> (Ended \/ ScrapeOver)

\* the process started from index.ts has exited with status 0 after the upserts
\* of both sources have returned, the last one given MaxInput records
C24_Witness ==
    /\ Ended /\ exitCode = 0 /\ Started("index")
    /\ Has(Ev("upsertDone", "METI", "returned", ""))
    /\ Has(Ev("upsertDone", "OCCTO", "returned", ""))
    /\ Len(last.meetings) = MaxInput

============================================================================
